---- MODULE Spec2Model ----
\* A model of function_app.py: the three Azure Functions of the bill splitter
\* (get_upload_url, get_receipt_results, AnalyzeReceipt) and the results table
\* they share.
\*
\* Representation.
\*   - A Python str that is a name or path is a sequence of tokens: "." and "/"
\*     are the separator characters, every other token is a non-empty run of
\*     characters holding neither ("u1", "jpg", "receipts").
\*   - A Python value is a record tagged with its type (PyNone, PyStr, PyNum,
\*     PyText for a str holding JSON text, PyList).
\*   - A JSON text is the sequence of its lexical tokens.
\*   - An amount is a whole number of thousandths (1.004 is 1004), so that
\*     rounding to 2 decimal places is rounding to a multiple of 10.
EXTENDS Integers, Sequences, FiniteSets, TLC

\* ------------------------------------------------------------------ bounds

\* Longest item list of an analysis response.
MaxItems == 2

\* ------------------------------------------------------- program constants

RECEIPT_CONTAINER_NAME == "receipts"

RESULTS_TABLE_NAME == "receiptresults"

\* The PartitionKey literal of the entity written and read.
PARTITION_KEY == "receipt"

\* The extension get_upload_url appends to the random identifier.
JPG_SUFFIX == <<".", "jpg">>

\* timedelta(minutes=5)
SAS_MINUTES == 5

\* ------------------------------------------------------------ Python values

PyNone == [t |-> "None", s |-> "", n |-> 0]

PyStr(x) == [t |-> "str", s |-> x, n |-> 0]

PyNum(x) == [t |-> "num", s |-> "", n |-> x]

\* A str holding JSON text (what json.dumps returns).
PyText(toks) == [t |-> "str", toks |-> toks]

PyList(elems) == [t |-> "list", elems |-> elems]

\* isinstance(v, str)
is_str(v) == v.t = "str"

\* `v or 0` for v a number or None
or_0(v) == IF v.t = "None" \/ (v.t = "num" /\ v.n = 0) THEN 0 ELSE v.n

\* ------------------------------------------------------------- os.path, str

\* p.rfind(c), 1-based; 0 when c does not occur
rfind(p, c) ==
    IF \E i \in 1..Len(p) : p[i] = c
    THEN CHOOSE i \in 1..Len(p) : p[i] = c /\ \A j \in (i+1)..Len(p) : p[j] # c
    ELSE 0

\* name.split('/')[-1]
split_last(name) == SubSeq(name, rfind(name, "/") + 1, Len(name))

\* A variant of splitext_root that cuts at the first dot of the name.
splitext_at_first_dot(p) ==
    IF \E i \in 2..Len(p) : p[i] = "."
    THEN SubSeq(p, 1, (CHOOSE i \in 2..Len(p) :
                         p[i] = "." /\ \A j \in 2..(i - 1) : p[j] # ".") - 1)
    ELSE p

\* os.path.splitext(p)[0] (posixpath: genericpath._splitext with sep '/',
\* no altsep, extsep '.'): the extension starts at the last dot of the last
\* path component, unless only dots precede it in that component.
splitext_root(p) ==
    LET sepIndex == rfind(p, "/")
        dotIndex == rfind(p, ".")
    IN  IF dotIndex > sepIndex
           /\ \E i \in (sepIndex + 1)..(dotIndex - 1) : p[i] # "."
        THEN SubSeq(p, 1, dotIndex - 1)
        ELSE p

\* receipt_id of AnalyzeReceipt
receipt_id_of_blob(blob_name) == splitext_root(split_last(blob_name))

\* receipt_id of get_receipt_results
receipt_id_of_request(blob_name) == splitext_root(blob_name)

\* ---------------------------------------------------------------- json

JPunct(c) == [t |-> "punct", s |-> c, n |-> 0]

JString(x) == [t |-> "string", s |-> x, n |-> 0]

JNumber(x) == [t |-> "number", s |-> "", n |-> x]

JNull == [t |-> "null", s |-> "", n |-> 0]

\* json.dumps of a scalar
dumps_scalar(v) ==
    IF v.t = "None" THEN <<JNull>>
    ELSE IF v.t = "str" THEN <<JString(v.s)>>
    ELSE <<JNumber(v.n)>>

\* json.dumps of one item dict, keys in insertion order
dumps_item(item) ==
    <<JPunct("{"), JString("description"), JPunct(":")>>
    \o dumps_scalar(item.description)
    \o <<JPunct(","), JString("totalPrice"), JPunct(":")>>
    \o dumps_scalar(item.totalPrice)
    \o <<JPunct("}")>>

RECURSIVE dumps_elems(_)
dumps_elems(items) ==
    IF items = <<>> THEN <<>>
    ELSE IF Len(items) = 1 THEN dumps_item(items[1])
    ELSE dumps_item(items[1]) \o <<JPunct(",")>> \o dumps_elems(Tail(items))

\* json.dumps(items_list)
json_dumps(items) ==
    PyText(<<JPunct("[")>> \o dumps_elems(items) \o <<JPunct("]")>>)

\* json.loads of a scalar token
loads_scalar(tok) ==
    IF tok.t = "null" THEN PyNone
    ELSE IF tok.t = "string" THEN PyStr(tok.s)
    ELSE PyNum(tok.n)

\* Parses the members of an object from toks[i] on, toks[i] being the first
\* key; returns the dict read and the position after the closing brace.
RECURSIVE loads_members(_, _, _)
loads_members(toks, i, acc) ==
    LET key == toks[i].s
        val == loads_scalar(toks[i + 2])
        now == (key :> val) @@ acc
    IN  IF toks[i + 3].s = ","
        THEN loads_members(toks, i + 4, now)
        ELSE [value |-> now, next |-> i + 4]

\* Parses the elements of an array from toks[i] on, toks[i] being the opening
\* brace of an element or the closing bracket; returns the list read.
RECURSIVE loads_elems(_, _, _)
loads_elems(toks, i, acc) ==
    IF toks[i].t = "punct" /\ toks[i].s = "]" THEN acc
    ELSE IF toks[i].t = "punct" /\ toks[i].s = "," THEN loads_elems(toks, i + 1, acc)
    ELSE LET obj == loads_members(toks, i + 1, <<>>)
         IN  loads_elems(toks, obj.next, Append(acc, obj.value))

\* json.loads(text) for the text of an array of flat objects
json_loads(text) == PyList(loads_elems(text.toks, 2, <<>>))

\* ------------------------------------------- document analysis responses

\* A DocumentField of the receipt: `present` is whether the key is in the
\* fields dict, `value` its .value (None when the service gave none).
FieldAbsent == [present |-> FALSE, value |-> PyNone]

FieldNull == [present |-> TRUE, value |-> PyNone]

FieldOf(v) == [present |-> TRUE, value |-> v]

\* The item fields a response may hold: a priced item, an item whose fields
\* carry no value, and an item without a TotalPrice field.
ItemKinds ==
    { [Description |-> FieldOf(PyStr("milk")), TotalPrice |-> FieldOf(PyNum(1004))],
      [Description |-> FieldNull, TotalPrice |-> FieldNull],
      [Description |-> FieldOf(PyStr("tea")), TotalPrice |-> FieldAbsent] }

ItemSeqs == UNION { [1..k -> ItemKinds] : k \in 0..MaxItems }

\* The Items field: absent, without a value, or a list of items.
ItemsFields ==
    {FieldAbsent, FieldNull} \cup { FieldOf(PyList(its)) : its \in ItemSeqs }

\* The TotalTax and Total fields a response may hold: both valued, both
\* without a value, and either one absent.
AmountFields ==
    { <<FieldOf(PyNum(100)), FieldOf(PyNum(2108))>>,
      <<FieldNull, FieldNull>>,
      <<FieldAbsent, FieldOf(PyNum(2108))>>,
      <<FieldOf(PyNum(100)), FieldAbsent>> }

\* result.documents[0].fields
Receipts ==
    { [Items |-> its, TotalTax |-> amounts[1], Total |-> amounts[2]] :
        its \in ItemsFields, amounts \in AmountFields }

\* What poller.result() gives: the call raises, or returns a result with no
\* document or with one.
NoReceipt == [Items |-> FieldAbsent, TotalTax |-> FieldAbsent, Total |-> FieldAbsent]

AnalysisRaises == [raises |-> TRUE, documents |-> 0, fields |-> NoReceipt]

AnalysisEmpty == [raises |-> FALSE, documents |-> 0, fields |-> NoReceipt]

AnalysisOf(receipt) == [raises |-> FALSE, documents |-> 1, fields |-> receipt]

Analyses ==
    {AnalysisRaises, AnalysisEmpty} \cup { AnalysisOf(r) : r \in Receipts }

\* Three receipts: two items with tax and total, the same items in the other
\* order with neither amount valued, and a receipt without a TotalTax field.
Milk == [Description |-> FieldOf(PyStr("milk")), TotalPrice |-> FieldOf(PyNum(1004))]

Unread == [Description |-> FieldNull, TotalPrice |-> FieldNull]

SampleReceipts ==
    { [ Items |-> FieldOf(PyList(<<Milk, Unread>>)),
        TotalTax |-> FieldOf(PyNum(100)), Total |-> FieldOf(PyNum(100)) ],
      [ Items |-> FieldOf(PyList(<<Unread, Milk>>)),
        TotalTax |-> FieldNull, Total |-> FieldNull ],
      [ Items |-> FieldAbsent,
        TotalTax |-> FieldAbsent, Total |-> FieldOf(PyNum(100)) ] }

SampleAnalyses ==
    {AnalysisRaises, AnalysisEmpty} \cup { AnalysisOf(r) : r \in SampleReceipts }

\* ------------------------------------------------------------ names

\* uuid.uuid4() values: strings without "." or "/"
Uuids == {"u1", "u2"}

\* blob.name of the objects created under the container: two names
\* get_upload_url issues, a name with another extension and a name whose base
\* holds a dot.
BlobNames ==
    { <<RECEIPT_CONTAINER_NAME, "/", "u1", ".", "jpg">>,
      <<RECEIPT_CONTAINER_NAME, "/", "u2", ".", "jpg">>,
      <<RECEIPT_CONTAINER_NAME, "/", "u1", ".", "png">>,
      <<RECEIPT_CONTAINER_NAME, "/", "u1", ".", "v2", ".", "jpg">> }

\* blobName route parameters of get_receipt_results: none, identifiers, names.
RouteParams ==
    { <<>>, <<"u1">>, <<"u2">>, <<"u1", ".", "v2">>,
      <<"u1", ".", "jpg">>, <<"u1", ".", "v2", ".", "jpg">>, <<"u3", ".", "jpg">> }

\* ------------------------------------------------------------ state

VARIABLES
    STORAGE_CONNECT_STR,        \* "None", "NoAccountKey" or "AccountKey"
    DOC_INTELLIGENCE_ENDPOINT,  \* "None" or "set"
    DOC_INTELLIGENCE_KEY,       \* "None" or "set"
    table,                      \* the entities of the results table
    extracted,                  \* history: <<RowKey, items_list>> of each entity
    issued,                     \* history: the blob names get_upload_url returned
    last                        \* the last invocation and what it returned
                                \* (for AnalyzeReceipt: how it ended, the entity
                                \* it set and, as history, the entities stored
                                \* under its receipt_id when it started)

vars ==
    <<STORAGE_CONNECT_STR, DOC_INTELLIGENCE_ENDPOINT, DOC_INTELLIGENCE_KEY,
      table, extracted, issued, last>>

env == <<STORAGE_CONNECT_STR, DOC_INTELLIGENCE_ENDPOINT, DOC_INTELLIGENCE_KEY>>

Init ==
    /\ STORAGE_CONNECT_STR \in {"None", "NoAccountKey", "AccountKey"}
    /\ DOC_INTELLIGENCE_ENDPOINT \in {"None", "set"}
    /\ DOC_INTELLIGENCE_KEY \in {"None", "set"}
    /\ table = {}
    /\ extracted = {}
    /\ issued = {}
    /\ last = [op |-> "none"]

\* ------------------------------------------------------ the results table

\* The entities of tbl with the given keys (none, or one).
table_get(tbl, partition_key, row_key) ==
    { e \in tbl : e.PartitionKey = partition_key /\ e.RowKey = row_key }

\* A variant of table_write that adds the entity without looking for one of
\* the same keys.
table_write_insert(tbl, entity) == tbl \cup {entity}

\* A variant of table_write that matches the stored entity by PartitionKey
\* alone.
table_write_by_partition(tbl, entity) ==
    { e \in tbl : e.PartitionKey # entity.PartitionKey } \cup {entity}

\* What the table holds after the output binding stored the entity set by
\* tableOutput.set: the entity replaces the one of the same keys, if any.
table_write(tbl, entity) ==
    (tbl \ table_get(tbl, entity.PartitionKey, entity.RowKey)) \cup {entity}

\* ------------------------------------------------------------ AnalyzeReceipt

\* The dict appended for one item. item_props.get(k, {}).value raises
\* AttributeError when the key is absent: the default {} has no .value.
item_entry(item_props) ==
    [ raised |-> ~item_props.Description.present \/ ~item_props.TotalPrice.present,
      entry  |-> [ description |-> item_props.Description.value,
                   totalPrice  |-> PyNum(or_0(item_props.TotalPrice.value)) ] ]

\* The loop filling items_list: skipped unless Items is present with a
\* non-empty value.
items_list_of(receipt) ==
    IF receipt.Items.present
       /\ receipt.Items.value.t = "list"
       /\ receipt.Items.value.elems # <<>>
    THEN LET elems == receipt.Items.value.elems
         IN  [ raised |-> \E i \in 1..Len(elems) : item_entry(elems[i]).raised,
               items  |-> [i \in 1..Len(elems) |-> item_entry(elems[i]).entry] ]
    ELSE [raised |-> FALSE, items |-> <<>>]

RECURSIVE sum_totalPrice(_)
sum_totalPrice(items) ==
    IF items = <<>> THEN 0 ELSE items[1].totalPrice.n + sum_totalPrice(Tail(items))

\* round(x, 2) of a non-negative amount: to the nearest multiple of 10
\* thousandths, a tie going to the even hundredth.
round_2(x) ==
    LET low == (x \div 10) * 10
        rest == x % 10
    IN  IF rest < 5 THEN low
        ELSE IF rest > 5 THEN low + 10
        ELSE IF (x \div 10) % 2 = 0 THEN low ELSE low + 10

\* A variant of calculated_subtotal that does not round.
calculated_subtotal_unrounded(items) == sum_totalPrice(items)

\* calculated_subtotal
calculated_subtotal(items) == round_2(sum_totalPrice(items))

\* output_data; building it raises when TotalTax or Total is absent.
output_data_of(receipt_id, receipt) ==
    LET il == items_list_of(receipt)
    IN  [ raised |-> il.raised \/ ~receipt.TotalTax.present \/ ~receipt.Total.present,
          data   |-> [ PartitionKey |-> PARTITION_KEY,
                       RowKey       |-> receipt_id,
                       items        |-> json_dumps(il.items),
                       subtotal     |-> calculated_subtotal(il.items),
                       tax          |-> or_0(receipt.TotalTax.value),
                       total        |-> or_0(receipt.Total.value) ] ]

\* A variant of try_block that sets the entity before the amounts are read,
\* so that an exception there comes after the write.
try_block_set_first(storage, endpoint, key, receipt_id, analysis) ==
    IF endpoint = "None" \/ key = "None" \/ storage = "None"
       \/ storage = "NoAccountKey" \/ analysis.raises
    THEN [analysed |-> "no", outcome |-> "raised", wrote |-> {}]
    ELSE IF analysis.documents = 0
    THEN [analysed |-> "empty", outcome |-> "nothing", wrote |-> {}]
    ELSE LET out == output_data_of(receipt_id, analysis.fields)
         IN  [ analysed |-> "document",
               outcome |-> IF out.raised THEN "raised" ELSE "written",
               wrote |-> {out.data} ]

\* A variant of try_block that writes a record without items when the
\* analysis returns no document.
try_block_empty_record(storage, endpoint, key, receipt_id, analysis) ==
    IF endpoint = "None" \/ key = "None" \/ storage = "None"
       \/ storage = "NoAccountKey" \/ analysis.raises
    THEN [analysed |-> "no", outcome |-> "raised", wrote |-> {}]
    ELSE LET out == output_data_of(receipt_id, analysis.fields)
         IN  IF analysis.documents = 0
             THEN [ analysed |-> "empty", outcome |-> "nothing",
                    wrote |-> { [out.data EXCEPT !.tax = 0, !.total = 0] } ]
             ELSE IF out.raised
             THEN [analysed |-> "document", outcome |-> "raised", wrote |-> {}]
             ELSE [analysed |-> "document", outcome |-> "written", wrote |-> {out.data}]

\* The try block: how far it got, how it ended, and the entity handed to
\* tableOutput.set (none unless it ended "written").
\*   analysed: "no" (an exception before poller.result() returned),
\*             "empty" (no document), "document"
\*   outcome:  "raised" (an exception, logged and swallowed), "nothing",
\*             "written"
try_block(storage, endpoint, key, receipt_id, analysis) ==
    IF endpoint = "None" \/ key = "None"          \* DocumentAnalysisClient(...)
       \/ storage = "None"                        \* from_connection_string
       \/ storage = "NoAccountKey"                \* credential.account_key
       \/ analysis.raises                         \* begin_analyze..., result()
    THEN [analysed |-> "no", outcome |-> "raised", wrote |-> {}]
    ELSE IF analysis.documents = 0
    THEN [analysed |-> "empty", outcome |-> "nothing", wrote |-> {}]
    ELSE LET out == output_data_of(receipt_id, analysis.fields)
         IN  IF out.raised
             THEN [analysed |-> "document", outcome |-> "raised", wrote |-> {}]
             ELSE [analysed |-> "document", outcome |-> "written", wrote |-> {out.data}]

\* The blob trigger for the object blob_name, the analysis service answering
\* with `analysis`.
AnalyzeReceipt(blob_name, analysis) ==
    LET receipt_id == receipt_id_of_blob(blob_name)
        run == try_block(STORAGE_CONNECT_STR, DOC_INTELLIGENCE_ENDPOINT,
                         DOC_INTELLIGENCE_KEY, receipt_id, analysis)
    IN  /\ table' = IF run.wrote = {} THEN table
                    ELSE table_write(table, CHOOSE e \in run.wrote : TRUE)
        /\ extracted' =
              IF run.wrote = {} THEN extracted
              ELSE { p \in extracted : p[1] # receipt_id }
                   \cup { <<receipt_id, items_list_of(analysis.fields).items>> }
        /\ last' = [ op |-> "AnalyzeReceipt", blob |-> blob_name,
                     analysed |-> run.analysed, outcome |-> run.outcome,
                     wrote |-> run.wrote,
                     prior |-> table_get(table, PARTITION_KEY, receipt_id) ]
        /\ UNCHANGED <<env, issued>>

\* --------------------------------------------------------- get_receipt_results

\* A variant of decoded that returns the entity as stored.
not_decoded(entity) == entity

\* The entity as returned: items decoded when it is a str.
decoded(entity) ==
    IF "items" \in DOMAIN entity /\ is_str(entity.items)
    THEN [entity EXCEPT !.items = json_loads(entity.items)]
    ELSE entity

\* A variant of get_receipt_results_response with one except clause: a
\* missing entity is answered like any other error.
get_receipt_results_response_one_except(storage, tbl, blob_name, lookup_raises) ==
    IF blob_name = <<>> THEN [status |-> 400, body |-> {}]
    ELSE LET found == table_get(tbl, PARTITION_KEY, splitext_root(blob_name))
         IN  IF storage = "None" \/ lookup_raises \/ found = {}
             THEN [status |-> 500, body |-> {}]
             ELSE [status |-> 200, body |-> { decoded(e) : e \in found }]

\* The response to GET get_receipt_results/{blobName}; lookup_raises is
\* whether the table service fails the lookup with an error other than
\* ResourceNotFoundError.
get_receipt_results_response(storage, tbl, blob_name, lookup_raises) ==
    IF blob_name = <<>> THEN [status |-> 400, body |-> {}]
    ELSE LET receipt_id == receipt_id_of_request(blob_name)
             found == table_get(tbl, PARTITION_KEY, receipt_id)
         IN  IF storage = "None" \/ lookup_raises
             THEN [status |-> 500, body |-> {}]
             ELSE IF found = {}
             THEN [status |-> 404, body |-> {}]
             ELSE [status |-> 200, body |-> { decoded(e) : e \in found }]

get_receipt_results(blob_name, lookup_raises) ==
    LET resp == get_receipt_results_response(STORAGE_CONNECT_STR, table,
                                             blob_name, lookup_raises)
    IN  /\ last' = [ op |-> "get_receipt_results", blobName |-> blob_name,
                     lookup_raises |-> lookup_raises,
                     status |-> resp.status, body |-> resp.body ]
        /\ UNCHANGED <<env, table, extracted, issued>>

\* ------------------------------------------------------------- get_upload_url

\* A variant of new_blob_name without the extension.
new_blob_name_bare(uuid) == <<uuid>>

\* blob_name = f"{uuid.uuid4()}.jpg"
new_blob_name(uuid) == <<uuid>> \o JPG_SUFFIX

\* sas_url: the blob it addresses and the token generate_blob_sas signed.
upload_sas_url(blob_name) ==
    [ path  |-> <<RECEIPT_CONTAINER_NAME, "/">> \o blob_name,
      token |-> [ container_name |-> RECEIPT_CONTAINER_NAME,
                  blob_name      |-> blob_name,
                  permission     |-> "write",
                  minutes        |-> SAS_MINUTES ] ]

\* The response to GET get_upload_url, uuid4() giving `uuid`.
get_upload_url_response(storage, uuid) ==
    IF storage # "AccountKey"
    THEN [status |-> 500, body |-> {}]
    ELSE LET blob_name == new_blob_name(uuid)
         IN  [ status |-> 200,
               body |-> { [sasUrl |-> upload_sas_url(blob_name), blobName |-> blob_name] } ]

get_upload_url(uuid) ==
    LET resp == get_upload_url_response(STORAGE_CONNECT_STR, uuid)
    IN  /\ last' = [op |-> "get_upload_url", status |-> resp.status, body |-> resp.body]
        /\ issued' = issued \cup { b.blobName : b \in resp.body }
        /\ UNCHANGED <<env, table, extracted>>

\* ------------------------------------------------------------ specification

\* Every function, over every object name, with the sample analyses.
Next ==
    \/ \E blob_name \in BlobNames, analysis \in SampleAnalyses :
          AnalyzeReceipt(blob_name, analysis)
    \/ \E blob_name \in RouteParams, lookup_raises \in BOOLEAN :
          get_receipt_results(blob_name, lookup_raises)
    \/ \E uuid \in Uuids : get_upload_url(uuid)

Spec == Init /\ [][Next]_vars

\* One object, analysed with every response of Analyses, and read back.
FieldsBlob == <<RECEIPT_CONTAINER_NAME, "/", "u1", ".", "jpg">>

NextFields ==
    \/ \E analysis \in Analyses : AnalyzeReceipt(FieldsBlob, analysis)
    \/ \E lookup_raises \in BOOLEAN :
          get_receipt_results(split_last(FieldsBlob), lookup_raises)

SpecFields == Init /\ [][NextFields]_vars

\* ============================================================ claims

\* The receipt identifier AnalyzeReceipt wrote or would have written under.
LastReceiptId == receipt_id_of_blob(last.blob)

LastIsAnalyze == last.op = "AnalyzeReceipt"

LastIsRead == last.op = "get_receipt_results"

LastIsUpload == last.op = "get_upload_url"

\* The number a field stands for in the record: its value, 0 when the field
\* is absent or has no value.
NumberOrZero(field) ==
    IF field.present /\ field.value.t = "num" THEN field.value.n ELSE 0

\* The item list of a receipt, as a list.
ItemsOf(receipt) ==
    IF receipt.Items.present /\ receipt.Items.value.t = "list"
    THEN receipt.Items.value.elems
    ELSE <<>>

\* C1: for every analysis response with at least one recognized document,
\* AnalyzeReceipt writes a record whose tax, total and item totalPrice values
\* are numbers, 0 standing for a TotalTax, Total or TotalPrice field that is
\* absent or has a null value; the record is written in every such case.
C1_MissingFieldsDefaultToZero ==
    [][ \A analysis \in Analyses :
          ( /\ analysis.documents > 0
            /\ AnalyzeReceipt(FieldsBlob, analysis)
            /\ last'.analysed = "document" )
          => \E e \in table' :
                /\ e.RowKey = receipt_id_of_blob(FieldsBlob)
                /\ e.tax = NumberOrZero(analysis.fields.TotalTax)
                /\ e.total = NumberOrZero(analysis.fields.Total)
                /\ LET stored == json_loads(e.items).elems
                       sent == ItemsOf(analysis.fields)
                   IN  /\ Len(stored) = Len(sent)
                       /\ \A i \in 1..Len(sent) :
                             stored[i].totalPrice
                                = PyNum(NumberOrZero(sent[i].TotalPrice)) ]_vars

RECURSIVE PriceTotal(_)
PriceTotal(items) ==
    IF items = <<>> THEN 0 ELSE items[1].totalPrice.n + PriceTotal(Tail(items))

\* x rounded to 2 decimal places is r: r is a whole number of hundredths and
\* no other is nearer to x.
IsRoundedTo2(x, r) ==
    /\ r % 10 = 0
    /\ 2 * (IF x >= r THEN x - r ELSE r - x) <= 10

\* C2: in every reachable state of the results table, each record's subtotal
\* is the sum of the totalPrice values of the list its items attribute decodes
\* to, rounded to 2 decimal places (0 for an empty list).
C2_SubtotalIsRoundedSum ==
    \A e \in table :
        LET items == json_loads(e.items).elems
        IN  /\ IsRoundedTo2(PriceTotal(items), e.subtotal)
            /\ (items = <<>> => e.subtotal = 0)

\* C2's case: a stored record of two priced items whose sum, 2.008, is not a
\* whole number of hundredths.
C2_Witness ==
    \E e \in table :
        /\ Len(json_loads(e.items).elems) = 2
        /\ PriceTotal(json_loads(e.items).elems) = 2008
        /\ e.subtotal = 2010

\* The lookup of the last read reached the table and got its answer: the
\* connection string is set and the service raised no error of its own.
LookupAnswered == STORAGE_CONNECT_STR # "None" /\ ~last.lookup_raises

\* C3 as stated: the reader, invoked with an identifier that has no record,
\* returns 404 and never 500, in every state and configuration.
C3_AbsentIdentifierIsAlways404 ==
    ( /\ LastIsRead
      /\ last.blobName # <<>>
      /\ table_get(table, PARTITION_KEY, last.blobName) = {}
      /\ table_get(table, PARTITION_KEY, receipt_id_of_request(last.blobName)) = {} )
        => last.status = 404

\* C3, amended: invoked with a non-empty blobName whose receipt identifier
\* (the name without its extension) has no record, the reader returns 404
\* whenever the lookup is answered, and 500 when it is not.
C3_AbsentIdentifierIs404WhenAnswered ==
    ( /\ LastIsRead
      /\ last.blobName # <<>>
      /\ table_get(table, PARTITION_KEY, receipt_id_of_request(last.blobName)) = {} )
        => /\ last.status = (IF LookupAnswered THEN 404 ELSE 500)
           /\ last.body = {}

\* C3's case: a read of an identifier without a record while the table holds
\* other records, answered 404.
C3_Witness ==
    /\ LastIsRead
    /\ last.blobName = <<"u2">>
    /\ table # {}
    /\ table_get(table, PARTITION_KEY, <<"u2">>) = {}
    /\ last.status = 404

C6_RaisedMeansNotFound ==
    (LastIsAnalyze /\ last.outcome = "raised")
        => /\ table_get(table, PARTITION_KEY, LastReceiptId) = {}
           /\ get_receipt_results_response("AccountKey", table,
                   split_last(last.blob), FALSE).status = 404

\* C6, amended: an invocation that raises inside its try block writes no
\* record and leaves the table as it was, so that every read is answered as
\* it was before: not-found for the invocation's identifier exactly when no
\* record was stored under it already.
C6_RaisedLeavesTableUnchanged ==
    [][ (last'.op = "AnalyzeReceipt" /\ last'.outcome = "raised")
          => /\ last'.wrote = {}
             /\ table' = table
             /\ \A q \in RouteParams, f \in BOOLEAN :
                   get_receipt_results_response(STORAGE_CONNECT_STR', table', q, f)
                     = get_receipt_results_response(STORAGE_CONNECT_STR, table, q, f)
             /\ (get_receipt_results_response("AccountKey", table',
                      split_last(last'.blob), FALSE).status = 404)
                  <=> (last'.prior = {}) ]_vars

\* C6's case: the analysis returned a document, the extraction raised, and
\* another identifier has a record.
C6_Witness ==
    /\ LastIsAnalyze
    /\ last.analysed = "document"
    /\ last.outcome = "raised"
    /\ last.prior = {}
    /\ table # {}

\* The extensions of the object names of BlobNames.
Extensions == { <<".", "jpg">>, <<".", "png">> }

\* The item list the analyzer extracted for the entity stored under row_key.
ExtractedFor(row_key) == { p[2] : p \in { q \in extracted : q[1] = row_key } }

\* The entity as the reader is to return it: the items attribute replaced by
\* the list the analyzer extracted.
Returned(e) == { [e EXCEPT !.items = PyList(items)] : items \in ExtractedFor(e.RowKey) }

\* C7 as stated: for every record stored under identifier r, the reader
\* invoked with r returns 200 with that record, its items decoded into the
\* list the analyzer extracted, in the same order.
C7_ReadByIdentifierReturnsRecord ==
    (LastIsRead /\ LookupAnswered)
        => \A e \in table :
              last.blobName = e.RowKey
                 => (last.status = 200 /\ last.body = Returned(e))

\* C7, amended: for every record stored under identifier r, the reader
\* invoked with the object's file name (r followed by the extension), or with
\* r itself when r holds no dot, returns 200 with that record, its items
\* decoded into the list the analyzer extracted, in the same order, whenever
\* the lookup is answered.
C7_ReadByFileNameReturnsRecord ==
    (LastIsRead /\ LookupAnswered)
        => \A e \in table :
              ( \/ \E ext \in Extensions : last.blobName = e.RowKey \o ext
                \/ (last.blobName = e.RowKey /\ rfind(e.RowKey, ".") = 0) )
                 => /\ last.status = 200
                    /\ last.body = Returned(e)
                    /\ \A b \in last.body : b.items.t = "list"

\* C7's case: the record of the object u1.v2.jpg, holding two items, read by
\* the object's file name.
C7_Witness ==
    /\ LastIsRead
    /\ last.blobName = <<"u1", ".", "v2", ".", "jpg">>
    /\ last.status = 200
    /\ \E b \in last.body :
          /\ b.RowKey = <<"u1", ".", "v2">>
          /\ Len(b.items.elems) = 2
          /\ b.items.elems[1].description = PyStr("milk")
          /\ b.items.elems[2].description = PyNone

\* The file name of an object of the container: blob.name without the
\* container and the separator that lead it.
FileNameOf(blob_name) == SubSeq(blob_name, 3, Len(blob_name))

\* An object name get_upload_url issues: a uuid and ".jpg", in the container.
IsIssuedName(blob_name) ==
    \E u \in Uuids : blob_name = <<RECEIPT_CONTAINER_NAME, "/", u, ".", "jpg">>

\* The row key is the object's file name with its extension stripped.
RowKeyIsStrippedName ==
    (LastIsAnalyze /\ last.outcome = "written")
        => \A w \in last.wrote :
              \E ext \in Extensions :
                 /\ FileNameOf(last.blob) = w.RowKey \o ext
                 /\ w \in table

\* C8 as stated: two distinct object names never yield the same row key.
C8_DistinctNamesDistinctKeys ==
    [][ ( /\ LastIsAnalyze /\ last.outcome = "written"
          /\ last'.op = "AnalyzeReceipt" /\ last'.outcome = "written"
          /\ last.blob # last'.blob )
          => \A w \in last.wrote, v \in last'.wrote : w.RowKey # v.RowKey ]_vars

\* C8, amended: the row key of every record written is the object's file
\* name with its extension stripped; two distinct names get_upload_url issues
\* (a dot-free identifier and ".jpg") never yield the same row key, while
\* names that differ in their extension alone do.
C8_IssuedNamesDistinctKeys ==
    [][ /\ RowKeyIsStrippedName'
        /\ ( /\ LastIsAnalyze /\ last.outcome = "written"
             /\ last'.op = "AnalyzeReceipt" /\ last'.outcome = "written" )
           => \A w \in last.wrote, v \in last'.wrote :
                 /\ (IsIssuedName(last.blob) /\ IsIssuedName(last'.blob)
                        /\ last.blob # last'.blob) => w.RowKey # v.RowKey
                 /\ (\E x \in Extensions, y \in Extensions :
                        /\ FileNameOf(last.blob) = w.RowKey \o x
                        /\ FileNameOf(last'.blob) = w.RowKey \o y)
                      => w.RowKey = v.RowKey ]_vars

\* C8's case: the names u1.jpg, u2.jpg and u1.v2.jpg each have their record.
C8_Witness ==
    /\ LastIsAnalyze
    /\ last.outcome = "written"
    /\ last.blob = <<RECEIPT_CONTAINER_NAME, "/", "u2", ".", "jpg">>
    /\ { e.RowKey : e \in table } = { <<"u1">>, <<"u2">>, <<"u1", ".", "v2">> }

\* The attributes of a complete record.
RecordAttributes == {"PartitionKey", "RowKey", "items", "subtotal", "tax", "total"}

\* C9 as stated: after an invocation whose analysis returned no document, a
\* read of its identifier is answered not-found.
C9_NoDocumentMeansNotFound ==
    (LastIsAnalyze /\ last.analysed = "empty")
        => /\ last.wrote = {}
           /\ get_receipt_results_response("AccountKey", table,
                   FileNameOf(last.blob), FALSE).status = 404

\* C9, amended: an invocation whose analysis returns no document writes
\* nothing and leaves the table as it was, so that a read of its identifier is
\* answered as before, not-found exactly when no record was stored under it
\* already; and every invocation either leaves the table as it was or stores
\* one complete record (RowKey, items, subtotal, tax, total) under its
\* identifier.
C9_NoDocumentLeavesTableUnchanged ==
    [][ (last'.op = "AnalyzeReceipt")
          => /\ (last'.analysed = "empty")
                  => /\ last'.outcome = "nothing"
                     /\ last'.wrote = {}
                     /\ table' = table
                     /\ (get_receipt_results_response("AccountKey", table',
                              FileNameOf(last'.blob), FALSE).status = 404)
                          <=> (last'.prior = {})
             /\ \/ (last'.outcome # "written" /\ table' = table)
                \/ /\ last'.outcome = "written"
                   /\ \E w \in last'.wrote :
                         /\ DOMAIN w = RecordAttributes
                         /\ w.RowKey \o <<".", last'.blob[Len(last'.blob)]>>
                               = FileNameOf(last'.blob)
                         /\ table' = (table \ last'.prior) \cup {w}
                         /\ Cardinality(table') = Cardinality(table)
                               + (IF last'.prior = {} THEN 1 ELSE 0) ]_vars

\* C9's case: the analysis of u2.jpg returned no document while other
\* identifiers have records; u2 has none.
C9_Witness ==
    /\ LastIsAnalyze
    /\ last.blob = <<RECEIPT_CONTAINER_NAME, "/", "u2", ".", "jpg">>
    /\ last.analysed = "empty"
    /\ Cardinality(table) = 2
    /\ table_get(table, PARTITION_KEY, <<"u2">>) = {}

\* The URL addresses the blob of that key in the receipts container, and its
\* token is signed for that key alone, to write.
ScopedTo(sas_url, blob_name) ==
    /\ sas_url.path = <<RECEIPT_CONTAINER_NAME, "/">> \o blob_name
    /\ sas_url.token.container_name = RECEIPT_CONTAINER_NAME
    /\ sas_url.token.blob_name = blob_name
    /\ sas_url.token.permission = "write"

EndsWithJpg(blob_name) ==
    /\ Len(blob_name) >= 2
    /\ SubSeq(blob_name, Len(blob_name) - 1, Len(blob_name)) = <<".", "jpg">>

====
